---- MODULE Spec2Model ----
(***************************************************************************)
(* Model of the formula evaluator (evaluateFormula / evaluateColumns) and  *)
(* of the sheet table's sort comparator (compareColumnValues).             *)
(*                                                                         *)
(* JavaScript values are records [t |-> <type tag>, v |-> <payload>].      *)
(* JavaScript strings are sequences of one-character strings, object keys  *)
(* (column names, identifiers) are TLA+ strings.                           *)
(***************************************************************************)
EXTENDS Integers, Sequences, FiniteSets, TLC

VARIABLES
  call,         \* the operation in progress and its inputs
  result,       \* its outcome
  sortBy,       \* the sort state of the sheet table
  i,            \* the module-wide counter of generated column names
  sheetConfigs, \* the column list (properties) of every sheet
  generated     \* the column names generated so far, in order

vars == <<call, result, sortBy, i, sheetConfigs, generated>>

tableVars == <<sortBy, i, sheetConfigs, generated>>

----------------------------------------------------------------------------
(* Bounds of the model *)

MaxDocLen == 3
MaxSnippets == 2
MaxColumns == 2
MaxList == 2
MaxRows == 3
MaxAdds == 3

----------------------------------------------------------------------------
(* JavaScript values *)

Undefined == [t |-> "undefined", v |-> 0]
Null == [t |-> "null", v |-> 0]
NaN == [t |-> "NaN", v |-> 0]
Bool(b) == [t |-> "boolean", v |-> b]
Num(n) == [t |-> "number", v |-> n]
Str(s) == [t |-> "string", v |-> s]
List(s) == [t |-> "list", v |-> s]
Snip(type, span) == [t |-> "snippet", v |-> [type |-> type, span |-> span]]
Fn(name, bound) == [t |-> "function", v |-> [name |-> name, bound |-> bound]]
Throw(kind) == [t |-> "throw", v |-> kind]

IsThrow(x) == x.t = "throw"

\* ToBoolean
Truthy(x) ==
  CASE x.t \in {"undefined", "null", "NaN"} -> FALSE
    [] x.t = "boolean" -> x.v
    [] x.t = "number" -> x.v # 0
    [] x.t = "string" -> x.v # <<>>
    [] OTHER -> TRUE

isFunction(x) == x.t = "function"

isArray(x) == x.t = "list"

\* Array.prototype.filter with a predicate that does not throw
RECURSIVE FilterSeq(_, _)
FilterSeq(s, keep) ==
  IF s = <<>> THEN <<>>
  ELSE IF keep[1] THEN <<s[1]>> \o FilterSeq(Tail(s), Tail(keep))
  ELSE FilterSeq(Tail(s), Tail(keep))

----------------------------------------------------------------------------
(* Documents and snippets *)

food == <<"f", "o", "o", "d">>
time == <<"t", "i", "m", "e">>
Types == {food, time}

Chars == {"x", "\n"}

SeqsUpTo(S, n) == UNION {[1..k -> S] : k \in 0..n}

Docs == SeqsUpTo(Chars, MaxDocLen)

\* Span: half-open character offsets [start, end) into the document
SpansIn(doc) == {sp \in (0..Len(doc)) \X (0..Len(doc)) : sp[1] < sp[2]}

SnippetsIn(doc) == {Snip(ty, sp) : ty \in Types, sp \in SpansIn(doc)}

\* Text.lineAt(pos).number; 0 stands for the RangeError of a position outside the document
lineAt(doc, pos) ==
  IF pos < 0 \/ pos > Len(doc) THEN 0
  ELSE 1 + Cardinality({p \in 1..pos : doc[p] = "\n"})

----------------------------------------------------------------------------
(* The built-in API of evaluateFormula *)

APINames == {"VALUES_OF_TYPE", "ON_SAME_LINE", "FILTER", "FIRST", "SECOND"}

Arg(all, at) == IF at <= Len(all) THEN all[at] ELSE Undefined

\* list[index] of JavaScript, index counted from 0
ElementAt(list, index) ==
  CASE list.t \in {"undefined", "null"} -> Throw("TypeError")
    [] list.t \in {"list", "string"} ->
         IF index + 1 <= Len(list.v)
         THEN (IF list.t = "list" THEN list.v[index + 1] ELSE Str(<<list.v[index + 1]>>))
         ELSE Undefined
    [] OTHER -> Undefined

\* snippet.type !== type
ValuesNotOfType(type, snippets) ==
  List(FilterSeq(snippets, [k \in 1..Len(snippets) |-> Str(snippets[k].v.type) # type]))

\* snippets.filter((snippet) => snippet.type === type)
VALUES_OF_TYPE(type, snippets) ==
  List(FilterSeq(snippets, [k \in 1..Len(snippets) |-> Str(snippets[k].v.type) = type]))

\* The test lineStartB === lineEndB is left out
OnSameLineWithoutEndB(a, b, doc) ==
  IF a.t # "snippet" \/ b.t # "snippet" THEN Throw("TypeError")
  ELSE Bool(/\ lineAt(doc, a.v.span[1]) = lineAt(doc, a.v.span[2])
            /\ lineAt(doc, a.v.span[1]) = lineAt(doc, b.v.span[1]))

ON_SAME_LINE(a, b, doc) ==
  IF a.t # "snippet" THEN Throw("TypeError")
  ELSE IF lineAt(doc, a.v.span[1]) = 0 \/ lineAt(doc, a.v.span[2]) = 0 THEN Throw("RangeError")
  ELSE IF b.t # "snippet" THEN Throw("TypeError")
  ELSE IF lineAt(doc, b.v.span[1]) = 0 \/ lineAt(doc, b.v.span[2]) = 0 THEN Throw("RangeError")
  ELSE LET lineStartA == lineAt(doc, a.v.span[1])
           lineEndA == lineAt(doc, a.v.span[2])
           lineStartB == lineAt(doc, b.v.span[1])
           lineEndB == lineAt(doc, b.v.span[2])
       IN Bool(lineStartA = lineEndA /\ lineStartB = lineEndB /\ lineStartA = lineStartB)

\* list[1] in place of list[0]
FirstOffByOne(list) == ElementAt(list, 1)

FIRST(list) == ElementAt(list, 0)

SECOND(list) == ElementAt(list, 1)

\* Calling a function value: the API functions (ON_SAME_LINE and FILTER are
\* curried with arity 2) and the arrow function (x) => x.type === T of a formula.
RECURSIVE ApplyFn(_, _, _, _)

\* list.filter((item) => isFunction(condition) ? condition(item) : item)
FILTER(list, condition, snippets, doc) ==
  IF list.t # "list" THEN Throw("TypeError")
  ELSE LET verdict == [k \in 1..Len(list.v) |->
                         IF isFunction(condition)
                         THEN ApplyFn(condition, <<list.v[k]>>, snippets, doc)
                         ELSE list.v[k]]
           thrown == {k \in 1..Len(list.v) : IsThrow(verdict[k])}
       IN IF thrown # {}
          THEN verdict[CHOOSE k \in thrown : \A j \in thrown : k <= j]
          ELSE List(FilterSeq(list.v, [k \in 1..Len(list.v) |-> Truthy(verdict[k])]))

ApplyFn(f, args, snippets, doc) ==
  LET all == f.v.bound \o args
      name == f.v.name
  IN CASE name = "VALUES_OF_TYPE" -> VALUES_OF_TYPE(Arg(all, 1), snippets)
       [] name = "ON_SAME_LINE" ->
            IF Len(all) < 2 THEN Fn(name, all)
            ELSE ON_SAME_LINE(all[1], all[2], doc)
       [] name = "FILTER" ->
            IF Len(all) < 2 THEN Fn(name, all)
            ELSE FILTER(all[1], all[2], snippets, doc)
       [] name = "FIRST" -> FIRST(Arg(all, 1))
       [] name = "SECOND" -> SECOND(Arg(all, 1))
       [] name = "typeIs" ->
            LET x == Arg(all, 2)
            IN IF x.t \in {"undefined", "null"} THEN Throw("TypeError")
               ELSE IF x.t = "snippet" THEN Bool(Str(x.v.type) = all[1])
               ELSE Bool(FALSE)
       [] OTHER -> Throw("TypeError")

----------------------------------------------------------------------------
(* Formula sources and evaluateFormula *)

\* A formula source: a literal, a free identifier, a call of a named function
\* on argument expressions, or text that is not an expression.
Lit(v) == [kind |-> "lit", x |-> v]
Ident(name) == [kind |-> "ident", x |-> name]
CallE(fn, args) == [kind |-> "call", x |-> [fn |-> fn, args |-> args]]
Malformed == [kind |-> "malformed", x |-> 0]
\* The empty source "": the generated function is `return` with no expression
EmptyFormula == [kind |-> "empty", x |-> 0]

\* What surrounds the `with (API)` block of the generated function
ObjectPrototypeNames == {"toString"}
FunctionScopeNames == {"API", "arguments"}
GlobalNames == {"Math", "undefined"}

Ambient(scope, name) == [t |-> "ambient", v |-> [scope |-> scope, name |-> name]]

\* Identifier resolution inside `with (API) { return <source> }`: the API object
\* (own properties, then its prototype chain), then the function's scope, then
\* the global scope.
Resolve(name) ==
  IF name \in APINames THEN Fn(name, <<>>)
  ELSE IF name \in ObjectPrototypeNames THEN Ambient("Object.prototype", name)
  ELSE IF name \in FunctionScopeNames THEN Ambient("function", name)
  ELSE IF name \in GlobalNames
       THEN (IF name = "undefined" THEN Undefined ELSE Ambient("global", name))
  ELSE Throw("ReferenceError")

RECURSIVE Eval(_, _, _)
Eval(e, snippets, doc) ==
  CASE e.kind = "lit" -> e.x
    [] e.kind = "empty" -> Undefined
    [] e.kind = "ident" -> Resolve(e.x)
    [] e.kind = "call" ->
         LET f == Resolve(e.x.fn)
             argv == [k \in 1..Len(e.x.args) |-> Eval(e.x.args[k], snippets, doc)]
             thrown == {k \in 1..Len(argv) : IsThrow(argv[k])}
         IN IF IsThrow(f) THEN f
            ELSE IF thrown # {} THEN argv[CHOOSE k \in thrown : \A j \in thrown : k <= j]
            ELSE IF ~isFunction(f) THEN Throw("TypeError")
            ELSE ApplyFn(f, argv, snippets, doc)
    [] OTHER -> Throw("SyntaxError")

\* new Function('API', `with (API) { return ${source} }`)(API)
evaluateFormula(source, snippets, doc) == Eval(source, snippets, doc)

----------------------------------------------------------------------------
(* evaluateColumns *)

\* { [column.name]: item }
Row(name, item) == [n \in {name} |-> item]

\* A later column is evaluated although rows exist
EvaluatesEveryColumn(resultRows) == TRUE

\* if (resultRows.length === 0)
NeedsRows(resultRows) == Len(resultRows) = 0

\* An undefined result adds no row
RowsSkippingUndefined(name, res) ==
  IF isArray(res) THEN [j \in 1..Len(res.v) |-> Row(name, res.v[j])]
  ELSE IF res = Undefined THEN <<>>
  ELSE <<Row(name, res)>>

\* A list result is pushed as one row
RowsWithoutSpread(name, res) == <<Row(name, res)>>

\* The rows pushed for the result of a column's formula
ColumnRows(name, res) ==
  IF isArray(res) THEN [j \in 1..Len(res.v) |-> Row(name, res.v[j])]
  ELSE <<Row(name, res)>>

\* One iteration of `for (const column of columns)`. acc.evaluated lists the
\* indexes of the columns whose formula was passed to evaluateFormula.
ColumnStep(acc, k, columns, snippets, doc) ==
  IF IsThrow(acc.thrown) THEN acc
  ELSE IF NeedsRows(acc.resultRows)
  THEN LET column == columns[k]
           res == evaluateFormula(column.formula, snippets, doc)
           seen == Append(acc.evaluated, k)
       IN IF IsThrow(res)
          THEN [acc EXCEPT !.thrown = res, !.evaluated = seen]
          ELSE [acc EXCEPT !.evaluated = seen,
                           !.resultRows = acc.resultRows \o ColumnRows(column.name, res)]
  ELSE acc

RECURSIVE ColumnLoop(_, _, _, _, _)
ColumnLoop(acc, k, columns, snippets, doc) ==
  IF k > Len(columns) THEN acc
  ELSE ColumnLoop(ColumnStep(acc, k, columns, snippets, doc), k + 1, columns, snippets, doc)

\* The outcome: the rows returned (resultRows) unless an exception left the
\* function (thrown), and the columns whose formula was evaluated.
evaluateColumns(columns, snippets, doc) ==
  ColumnLoop([resultRows |-> <<>>, thrown |-> Undefined, evaluated |-> <<>>],
             1, columns, snippets, doc)

----------------------------------------------------------------------------
(* The sort comparator of the sheet table *)

Highlight(text, span) == [t |-> "highlight", v |-> [text |-> text, span |-> span]]

NoSpan == <<>>

\* A SheetValueRow: its cells by column name, and its span when the row is a highlight
SheetRow(data, span) == [data |-> data, span |-> span]

\* isValueRowHighlight applied to a cell value and to a row
isValueHighlight(x) == x.t = "highlight"
isValueRowHighlight(row) == row.span # NoSpan

getTextForHighlight(h) == Str(h.v.text)

\* row.data[columnName]
Cell(row, columnName) ==
  IF columnName \in DOMAIN row.data THEN row.data[columnName] ELSE Undefined

Digits == <<"0", "1", "2", "3", "4", "5", "6", "7", "8", "9">>

IsDigit(c) == \E d \in 1..10 : Digits[d] = c

DigitValue(c) == (CHOOSE d \in 1..10 : Digits[d] = c) - 1

RECURSIVE DigitsValue(_)
DigitsValue(s) ==
  IF s = <<>> THEN 0 ELSE 10 * DigitsValue(SubSeq(s, 1, Len(s) - 1)) + DigitValue(s[Len(s)])

RECURSIVE NatStringOf(_)
NatStringOf(n) ==
  IF n < 10 THEN <<Digits[n + 1]>> ELSE NatStringOf(n \div 10) \o <<Digits[(n % 10) + 1]>>

\* String(value), for the values of the model
StringOf(x) ==
  CASE x.t = "string" -> x.v
    [] x.t = "number" -> IF x.v < 0 THEN <<"-">> \o NatStringOf(-x.v) ELSE NatStringOf(x.v)
    [] x.t = "NaN" -> <<"N", "a", "N">>
    [] x.t = "null" -> <<"n", "u", "l", "l">>
    [] x.t = "boolean" -> IF x.v THEN <<"t", "r", "u", "e">> ELSE <<"f", "a", "l", "s", "e">>
    [] OTHER -> <<"o">>

\* parseFloat: the longest prefix of digits of String(value), NaN when there is none
parseFloat(x) ==
  LET str == StringOf(x)
      stop == {k \in 1..Len(str) : ~IsDigit(str[k])}
      len == IF stop = {} THEN Len(str) ELSE (CHOOSE k \in stop : \A j \in stop : k <= j) - 1
  IN IF x.t = "number" THEN x
     ELSE IF len = 0 THEN NaN
     ELSE Num(DigitsValue(SubSeq(str, 1, len)))

\* new Date(value).getTime() in milliseconds: a number is a time value, a string
\* "1970-01-DD" is an ISO date of January 1970, any other text of the model is an
\* invalid date
DateGetTime(x) ==
  CASE x.t = "number" -> x
    [] x.t = "string" ->
         IF /\ Len(x.v) = 10
            /\ SubSeq(x.v, 1, 8) = <<"1", "9", "7", "0", "-", "0", "1", "-">>
            /\ IsDigit(x.v[9]) /\ IsDigit(x.v[10])
            /\ DigitsValue(SubSeq(x.v, 9, 10)) \in 1..31
         THEN Num(86400000 * (DigitsValue(SubSeq(x.v, 9, 10)) - 1))
         ELSE NaN
    [] x.t = "null" -> Num(0)
    [] OTHER -> NaN

\* Collation order of the characters of the model
Alphabet == <<"-">> \o Digits \o <<"a", "b", "c">>

CharRank(c) == CHOOSE k \in 1..Len(Alphabet) : Alphabet[k] = c

\* String.prototype.localeCompare: -1, 0 or 1
RECURSIVE localeCompare(_, _)
localeCompare(s, u) ==
  IF s = <<>> THEN (IF u = <<>> THEN 0 ELSE -1)
  ELSE IF u = <<>> THEN 1
  ELSE IF CharRank(s[1]) < CharRank(u[1]) THEN -1
  ELSE IF CharRank(s[1]) > CharRank(u[1]) THEN 1
  ELSE localeCompare(Tail(s), Tail(u))

\* x - y on numbers
Minus(x, y) == IF x.t = "NaN" \/ y.t = "NaN" THEN NaN ELSE Num(x.v - y.v)

Negate(x) == IF x.t = "NaN" THEN NaN ELSE Num(-x.v)

SortMethods == {"Date", "Alphabetical", "Numeric"}

Directions == {"asc", "desc"}

\* The value a row is compared by: the text of a highlight cell, else the cell itself
ColumnSortValue(row, columnName) ==
  IF isValueHighlight(Cell(row, columnName))
  THEN getTextForHighlight(Cell(row, columnName))
  ELSE Cell(row, columnName)

\* rv before the direction is applied
PrimaryComparison(aValue, bValue, sortMethod) ==
  IF aValue = Undefined THEN (IF bValue = Undefined THEN Num(0) ELSE Num(1))
  ELSE IF bValue = Undefined THEN Num(-1)
  ELSE CASE sortMethod = "Date" -> Minus(DateGetTime(aValue), DateGetTime(bValue))
         [] sortMethod = "Numeric" -> Minus(parseFloat(aValue), parseFloat(bValue))
         [] sortMethod = "Alphabetical" ->
              Num(localeCompare(StringOf(aValue), StringOf(bValue)))

\* The direction is applied after the tie-break
CompareNegatingTieBreak(a, b, columnName, sortMethod, direction) ==
  LET primary == PrimaryComparison(ColumnSortValue(a, columnName),
                                   ColumnSortValue(b, columnName), sortMethod)
      broken == IF primary = Num(0)
                THEN (IF isValueRowHighlight(a) /\ isValueRowHighlight(b)
                      THEN Num(a.span[1] - b.span[1])
                      ELSE Num(0))
                ELSE primary
  IN IF direction = "desc" THEN Negate(broken) ELSE broken

compareColumnValues(a, b, columnName, sortMethod, direction) ==
  LET aValue == ColumnSortValue(a, columnName)
      bValue == ColumnSortValue(b, columnName)
      primary == PrimaryComparison(aValue, bValue, sortMethod)
      rv == IF direction = "desc" THEN Negate(primary) ELSE primary
  IN IF rv = Num(0)
     THEN (IF isValueRowHighlight(a) /\ isValueRowHighlight(b)
           THEN Num(a.span[1] - b.span[1])
           ELSE Num(0))
     ELSE rv

----------------------------------------------------------------------------
(* The sort of the sheet table *)

\* The value looks numeric: a number, or text made of digits only
isNumericish(x) ==
  \/ x.t = "number"
  \/ (x.t = "string" /\ x.v # <<>> /\ \A k \in 1..Len(x.v) : IsDigit(x.v[k]))

\* The first row's value is tested before the column name
SortMethodNumericFirst(columnName, firstRowColumnValue) ==
  IF isNumericish(firstRowColumnValue) THEN "Numeric"
  ELSE IF columnName = "date" THEN "Date"
  ELSE "Alphabetical"

\* columnName === "date" ? Date : isNumericish(firstRowColumnValue) ? Numeric : Alphabetical
ChooseSortMethod(columnName, firstRowColumnValue) ==
  IF columnName = "date" THEN "Date"
  ELSE IF isNumericish(firstRowColumnValue) THEN "Numeric"
  ELSE "Alphabetical"

\* The comparator's result as Array.prototype.sort reads it: NaN counts as 0
SortCompare(a, b, columnName, sortMethod, direction) ==
  LET v == compareColumnValues(a, b, columnName, sortMethod, direction)
  IN IF v = NaN THEN 0 ELSE v.v

\* Array.prototype.sort as a stable insertion sort. With a comparator that is not
\* a consistent order the engine may return another permutation of the rows.
RECURSIVE InsertRow(_, _, _, _, _)
InsertRow(sorted, row, columnName, sortMethod, direction) ==
  IF sorted = <<>> THEN <<row>>
  ELSE IF SortCompare(sorted[Len(sorted)], row, columnName, sortMethod, direction) > 0
  THEN InsertRow(SubSeq(sorted, 1, Len(sorted) - 1), row, columnName, sortMethod, direction)
         \o <<sorted[Len(sorted)]>>
  ELSE Append(sorted, row)

RECURSIVE ArraySort(_, _, _, _)
ArraySort(rows, columnName, sortMethod, direction) ==
  IF rows = <<>> THEN <<>>
  ELSE InsertRow(ArraySort(SubSeq(rows, 1, Len(rows) - 1), columnName, sortMethod, direction),
                 rows[Len(rows)], columnName, sortMethod, direction)

\* rows.sort(...): the array given to the table is sorted itself
SortInPlace(rows, columnName, sortMethod, direction) ==
  [rows |-> ArraySort(rows, columnName, sortMethod, direction),
   sortedRows |-> ArraySort(rows, columnName, sortMethod, direction)]

\* [...rows].sort(...): the rows array after the call, and the sorted copy
SortCopy(rows, columnName, sortMethod, direction) ==
  [rows |-> rows, sortedRows |-> ArraySort(rows, columnName, sortMethod, direction)]

\* The sortedRows computed by one render of SheetTable, with the sort method it
\* chose ("none" when it does not sort) and the rows array after the render
SheetTableSort(rows, sortState) ==
  IF Len(rows) > 0 /\ sortState # Undefined
  THEN LET columnName == sortState.columnName
           direction == sortState.direction
           firstRow == rows[1]
           firstRowColumnValue == ColumnSortValue(firstRow, columnName)
           sortMethod == ChooseSortMethod(columnName, firstRowColumnValue)
           sorted == SortCopy(rows, columnName, sortMethod, direction)
       IN [rows |-> sorted.rows, sortedRows |-> sorted.sortedRows, sortMethod |-> sortMethod]
  ELSE [rows |-> rows, sortedRows |-> rows, sortMethod |-> "none"]

\* The direction of the current sort state is not compared
ClickedIgnoringDirection(sortState, columnName, direction) ==
  IF sortState # Undefined /\ sortState.columnName = columnName
  THEN Undefined
  ELSE [columnName |-> columnName, direction |-> direction]

\* The ascending or descending button of a column is clicked
ClickedSortState(sortState, columnName, direction) ==
  IF sortState # Undefined /\ sortState.columnName = columnName
       /\ sortState.direction = direction
  THEN Undefined
  ELSE [columnName |-> columnName, direction |-> direction]

----------------------------------------------------------------------------
(* Inputs *)

\* The snippets of a sheet's document, and the document of the sheet
SheetDoc == <<"x", "\n", "x">>

SnippetPool == {Snip(food, <<0, 1>>), Snip(time, <<0, 1>>), Snip(food, <<2, 3>>)}

SnippetLists == SeqsUpTo(SnippetPool, MaxSnippets)

StrArg(type) == Lit(Str(type))

\* FILTER(VALUES_OF_TYPE("time"), ON_SAME_LINE(FIRST(VALUES_OF_TYPE("food"))))
SameLineFormula ==
  CallE("FILTER",
        <<CallE("VALUES_OF_TYPE", <<StrArg(time)>>),
          CallE("ON_SAME_LINE", <<CallE("FIRST", <<CallE("VALUES_OF_TYPE", <<StrArg(food)>>)>>)>>)>>)

ColumnFormulas ==
  { Lit(List(<<Num(1), Num(2), Num(3)>>)),
    Lit(Num(99)),
    Lit(List(<<>>)),
    Ident("undefined"),
    CallE("VALUES_OF_TYPE", <<StrArg(food)>>),
    SameLineFormula,
    Malformed }

ColumnNames == {"a", "b"}

FormulaColumns == [name : ColumnNames, formula : ColumnFormulas]

ColumnLists == SeqsUpTo(FormulaColumns, MaxColumns)

\* Values a formula can put in a list, and second arguments of FILTER
ItemValues ==
  {Num(0), Num(1), Num(5), Num(6), Str(<<>>), Bool(FALSE), Null, Undefined, Snip(food, <<0, 1>>)}

ListValues == SeqsUpTo(ItemValues, MaxList)

Conditions ==
  {Str(<<"n", "o">>), Undefined, Num(1), Fn("typeIs", <<Str(food)>>),
   Fn("ON_SAME_LINE", <<Snip(time, <<0, 1>>)>>)}

Identifiers ==
  APINames \cup ObjectPrototypeNames \cup FunctionScopeNames \cup GlobalNames \cup {"nosuchname"}

CellValues ==
  {Undefined, Str(<<"a">>), Str(<<"b">>), Str(<<"1", "0">>), Str(<<"9">>),
   Str(<<"1", "9", "7", "0", "-", "0", "1", "-", "0", "2">>), Num(7),
   Highlight(<<"b">>, <<0, 1>>)}

SortColumns == {"n", "date"}

SheetRows ==
  {SheetRow(data, span) :
     data \in UNION {[{c} -> CellValues] : c \in SortColumns},
     span \in {NoSpan, <<0, 1>>, <<2, 3>>}}

\* Rows given to the sheet table
TableRowPool ==
  { SheetRow([n |-> Str(<<"b">>), date |-> Str(<<"1", "9", "7", "0", "-", "0", "1", "-", "0", "2">>)], NoSpan),
    SheetRow([n |-> Str(<<"a">>), date |-> Num(7)], <<2, 3>>),
    SheetRow([n |-> Str(<<"a">>), date |-> Num(7)], <<0, 1>>),
    SheetRow([n |-> Str(<<"1", "0">>), date |-> Str(<<"1", "0">>)], <<0, 1>>),
    SheetRow([n |-> Str(<<"9">>), date |-> Str(<<"1", "9", "7", "0", "-", "0", "1", "-", "0", "1">>)], NoSpan),
    SheetRow([n |-> Undefined, date |-> Undefined], <<2, 3>>) }

TableRowLists == SeqsUpTo(TableRowPool, MaxRows)

\* The columns of the table, each with an ascending and a descending button
TableColumns == {"n", "date", "col2"}

Sheets == {"sheet1", "sheet2"}

----------------------------------------------------------------------------
(* Actions *)

NoCall == [op |-> "none"]

Idle == call = NoCall

Init ==
  /\ call = NoCall
  /\ result = Undefined
  /\ sortBy = Undefined
  /\ i = 1
  /\ sheetConfigs = [sheet \in Sheets |-> <<>>]
  /\ generated = <<>>

\* evaluateColumns(columns, snippets, doc)
EvaluateColumns ==
  /\ Idle
  /\ \E columns \in ColumnLists, snippets \in SnippetLists :
       /\ call' = [op |-> "evaluateColumns", columns |-> columns,
                   snippets |-> snippets, doc |-> SheetDoc]
       /\ result' = evaluateColumns(columns, snippets, SheetDoc)
  /\ UNCHANGED tableVars

\* evaluateFormula on the source VALUES_OF_TYPE(type)
EvaluateValuesOfType ==
  /\ Idle
  /\ \E snippets \in SnippetLists, type \in Types \cup {<<"x">>} :
       /\ call' = [op |-> "VALUES_OF_TYPE", type |-> type,
                   snippets |-> snippets, doc |-> SheetDoc]
       /\ result' = evaluateFormula(CallE("VALUES_OF_TYPE", <<StrArg(type)>>), snippets, SheetDoc)
  /\ UNCHANGED tableVars

\* evaluateFormula on the source ON_SAME_LINE(a, b), a and b snippets of the document
EvaluateOnSameLine ==
  /\ Idle
  /\ \E doc \in Docs :
       \E a \in SnippetsIn(doc), b \in SnippetsIn(doc) :
         /\ call' = [op |-> "ON_SAME_LINE", a |-> a, b |-> b, snippets |-> <<a, b>>, doc |-> doc]
         /\ result' = evaluateFormula(CallE("ON_SAME_LINE", <<Lit(a), Lit(b)>>), <<a, b>>, doc)
  /\ UNCHANGED tableVars

\* evaluateFormula on the source FILTER(list, condition)
EvaluateFilter ==
  /\ Idle
  /\ \E list \in ListValues, condition \in Conditions :
       /\ call' = [op |-> "FILTER", list |-> list, condition |-> condition,
                   snippets |-> <<>>, doc |-> SheetDoc]
       /\ result' = evaluateFormula(CallE("FILTER", <<Lit(List(list)), Lit(condition)>>), <<>>, SheetDoc)
  /\ UNCHANGED tableVars

\* evaluateFormula on the source FIRST(list)
EvaluateFirst ==
  /\ Idle
  /\ \E list \in ListValues :
       /\ call' = [op |-> "FIRST", list |-> list, snippets |-> <<>>, doc |-> SheetDoc]
       /\ result' = evaluateFormula(CallE("FIRST", <<Lit(List(list))>>), <<>>, SheetDoc)
  /\ UNCHANGED tableVars

\* evaluateFormula on the source SECOND(list)
EvaluateSecond ==
  /\ Idle
  /\ \E list \in ListValues :
       /\ call' = [op |-> "SECOND", list |-> list, snippets |-> <<>>, doc |-> SheetDoc]
       /\ result' = evaluateFormula(CallE("SECOND", <<Lit(List(list))>>), <<>>, SheetDoc)
  /\ UNCHANGED tableVars

\* evaluateFormula on a source that is one free identifier
EvaluateIdentifier ==
  /\ Idle
  /\ \E name \in Identifiers, snippets \in SnippetLists :
       /\ call' = [op |-> "identifier", name |-> name, snippets |-> snippets, doc |-> SheetDoc]
       /\ result' = evaluateFormula(Ident(name), snippets, SheetDoc)
  /\ UNCHANGED tableVars

\* One call of the comparator by Array.prototype.sort
CompareColumnValues ==
  /\ Idle
  /\ \E a \in SheetRows, b \in SheetRows, columnName \in SortColumns,
        sortMethod \in SortMethods, direction \in Directions :
       /\ call' = [op |-> "compareColumnValues", a |-> a, b |-> b, columnName |-> columnName,
                   sortMethod |-> sortMethod, direction |-> direction]
       /\ result' = compareColumnValues(a, b, columnName, sortMethod, direction)
  /\ UNCHANGED tableVars

\* The caller takes the outcome
Return ==
  /\ ~Idle
  /\ call' = NoCall
  /\ result' = Undefined
  /\ UNCHANGED tableVars

Next ==
  \/ EvaluateColumns
  \/ EvaluateValuesOfType
  \/ EvaluateOnSameLine
  \/ EvaluateFilter
  \/ EvaluateFirst
  \/ EvaluateSecond
  \/ EvaluateIdentifier
  \/ CompareColumnValues
  \/ Return

Spec == Init /\ [][Next]_vars

----------------------------------------------------------------------------
(* The sheet table: sort buttons and rendering *)

\* onClick of the ascending button of a column
ClickSortAscending ==
  /\ Idle
  /\ \E columnName \in TableColumns :
       /\ call' = [op |-> "sortClick", columnName |-> columnName, direction |-> "asc"]
       /\ sortBy' = ClickedSortState(sortBy, columnName, "asc")
  /\ UNCHANGED <<result, i, sheetConfigs, generated>>

\* onClick of the descending button of a column
ClickSortDescending ==
  /\ Idle
  /\ \E columnName \in TableColumns :
       /\ call' = [op |-> "sortClick", columnName |-> columnName, direction |-> "desc"]
       /\ sortBy' = ClickedSortState(sortBy, columnName, "desc")
  /\ UNCHANGED <<result, i, sheetConfigs, generated>>

\* One render of SheetTable with the rows it is given
RenderSheetTable ==
  /\ Idle
  /\ \E rows \in TableRowLists :
       /\ call' = [op |-> "SheetTable", rows |-> rows]
       /\ result' = SheetTableSort(rows, sortBy)
  /\ UNCHANGED tableVars

TableNext ==
  \/ ClickSortAscending
  \/ ClickSortDescending
  \/ RenderSheetTable
  \/ Return

TableSpec == Init /\ [][TableNext]_vars

----------------------------------------------------------------------------
(* The columns of a sheet: adding a column, editing a formula or a name *)

\* `col${i++}`: the counter is used before it is incremented
NameBeforeIncrement(counter) == "col" \o ToString(counter)

\* `col${++i}`, for the counter's value before the increment
GeneratedName(counter) == "col" \o ToString(counter + 1)

\* sheetConfig.properties.push({ name, formula: "", visibility: Hidden })
addColumn(properties, counter) ==
  Append(properties,
         [name |-> GeneratedName(counter), formula |-> EmptyFormula, visibility |-> "Hidden"])

\* properties.map((column, index) => index === changedIndex ? { ...column, formula } : column)
changeFormulaAt(properties, changedIndex, formula) ==
  [k \in 1..Len(properties) |->
     IF k - 1 = changedIndex THEN [properties[k] EXCEPT !.formula = formula] ELSE properties[k]]

\* properties.map((column, index) => index === changedIndex ? { ...column, name } : column)
changeNameAt(properties, changedIndex, name) ==
  [k \in 1..Len(properties) |->
     IF k - 1 = changedIndex THEN [properties[k] EXCEPT !.name = name] ELSE properties[k]]

\* Texts typed into the formula editor and the name input of a column
EditedFormulas == {Lit(Num(99))}

EditedNames == {"col3"}

\* onClick of the add-column button of a sheet's table
AddColumn ==
  /\ Idle
  /\ i < 1 + MaxAdds
  /\ \E sheet \in Sheets :
       /\ call' = [op |-> "addColumn", sheet |-> sheet]
       /\ sheetConfigs' = [sheetConfigs EXCEPT ![sheet] = addColumn(sheetConfigs[sheet], i)]
  /\ generated' = Append(generated, GeneratedName(i))
  /\ i' = i + 1
  /\ UNCHANGED <<result, sortBy>>

\* onChange of the formula editor of the column at columnIndex
ChangeFormulaAt ==
  /\ Idle
  /\ \E sheet \in Sheets :
       \E columnIndex \in 0..(Len(sheetConfigs[sheet]) - 1), formula \in EditedFormulas :
         /\ call' = [op |-> "changeFormulaAt", sheet |-> sheet,
                     columnIndex |-> columnIndex, formula |-> formula]
         /\ sheetConfigs' = [sheetConfigs EXCEPT
                               ![sheet] = changeFormulaAt(sheetConfigs[sheet], columnIndex, formula)]
  /\ UNCHANGED <<result, sortBy, i, generated>>

\* onChange of the name input of the column at columnIndex
ChangeNameAt ==
  /\ Idle
  /\ \E sheet \in Sheets :
       \E columnIndex \in 0..(Len(sheetConfigs[sheet]) - 1), name \in EditedNames :
         /\ call' = [op |-> "changeNameAt", sheet |-> sheet,
                     columnIndex |-> columnIndex, name |-> name]
         /\ sheetConfigs' = [sheetConfigs EXCEPT
                               ![sheet] = changeNameAt(sheetConfigs[sheet], columnIndex, name)]
  /\ UNCHANGED <<result, sortBy, i, generated>>

ColumnsNext ==
  \/ AddColumn
  \/ ChangeFormulaAt
  \/ ChangeNameAt
  \/ Return

ColumnsSpec == Init /\ [][ColumnsNext]_vars

----------------------------------------------------------------------------
(* Claims about evaluateColumns *)

IsEvaluateColumns == call.op = "evaluateColumns"

\* The value of the formula of column k of the call, evaluated on its own
ColumnValue(k) == evaluateFormula(call.columns[k].formula, call.snippets, call.doc)

\* The column names that are keys of some returned row
RowKeys == UNION {DOMAIN result.resultRows[r] : r \in 1..Len(result.resultRows)}

\* C1, as stated: with two or more columns, no column at index 1 or later (0-based)
\* has its formula evaluated or contributes a row, whatever the first formula yields.
C1_OnlyFirstColumnEvaluated ==
  (IsEvaluateColumns /\ Len(call.columns) >= 2) =>
    /\ \A j \in 1..Len(result.evaluated) : result.evaluated[j] = 1
    /\ RowKeys \subseteq {call.columns[1].name}

\* C1, amended: the columns are evaluated in order, and a column after the first
\* is evaluated exactly when every earlier column's formula evaluated to an empty
\* list; every returned row comes from the last column evaluated, so once a column
\* has yielded a row (or thrown) no later column is evaluated or contributes a row.
C1_EvaluationStopsAtFirstRows ==
  IsEvaluateColumns =>
    /\ \A k \in 1..Len(call.columns) :
         (\E j \in 1..Len(result.evaluated) : result.evaluated[j] = k)
           <=> (\A e \in 1..(k - 1) : ColumnValue(e) = List(<<>>))
    /\ \A j \in 1..Len(result.evaluated) : result.evaluated[j] = j
    /\ result.evaluated # <<>> =>
         RowKeys \subseteq {call.columns[result.evaluated[Len(result.evaluated)]].name}
    /\ result.evaluated = <<>> => result.resultRows = <<>>

\* C1 witness: the first of two columns yields rows and the second is not evaluated
C1_Witness ==
  /\ IsEvaluateColumns
  /\ Len(call.columns) = 2
  /\ result.evaluated = <<1>>
  /\ Len(result.resultRows) = 3

\* C2, as stated: the result is empty when the column list is empty and when the
\* first formula evaluates to an empty list or to undefined, whatever columns follow.
C2_EmptyOnEmptyOrUndefined ==
  (IsEvaluateColumns /\
   (call.columns = <<>> \/ ColumnValue(1) = List(<<>>) \/ ColumnValue(1) = Undefined)) =>
    (result.resultRows = <<>> /\ ~IsThrow(result.thrown))

\* C2, amended: the result is empty when the column list is empty and when every
\* column's formula evaluates to an empty list; a first formula that evaluates to
\* undefined yields exactly one row, mapping the first column's name to undefined.
C2_EmptyOnlyWhenNoColumnYieldsRows ==
  IsEvaluateColumns =>
    /\ (\A k \in 1..Len(call.columns) : ColumnValue(k) = List(<<>>)) =>
         (result.resultRows = <<>> /\ ~IsThrow(result.thrown))
    /\ (call.columns # <<>> /\ ColumnValue(1) = Undefined) =>
         /\ ~IsThrow(result.thrown)
         /\ Len(result.resultRows) = 1
         /\ DOMAIN result.resultRows[1] = {call.columns[1].name}
         /\ result.resultRows[1][call.columns[1].name] = Undefined

\* C2 witness: a first formula that evaluates to undefined, followed by another column
C2_Witness ==
  /\ IsEvaluateColumns
  /\ Len(call.columns) = 2
  /\ ColumnValue(1) = Undefined
  /\ Len(result.resultRows) = 1

\* C3: a first formula that evaluates to a non-empty list L gives Len(L) rows in
\* list order, row k mapping only the first column's name to L[k]; a non-list
\* value v gives the single row mapping that name to v; "[1,2,3]" followed by "99"
\* gives [{a:1},{a:2},{a:3}].
C3_RowsOfFirstColumn ==
  (IsEvaluateColumns /\ call.columns # <<>>) =>
    LET name == call.columns[1].name
        value == ColumnValue(1)
        rows == result.resultRows
    IN /\ (isArray(value) /\ value.v # <<>>) =>
            /\ ~IsThrow(result.thrown)
            /\ Len(rows) = Len(value.v)
            /\ \A k \in 1..Len(rows) : DOMAIN rows[k] = {name} /\ rows[k][name] = value.v[k]
       /\ (~isArray(value) /\ ~IsThrow(value)) =>
            /\ ~IsThrow(result.thrown)
            /\ Len(rows) = 1
            /\ DOMAIN rows[1] = {name} /\ rows[1][name] = value
       /\ (call.columns = <<[name |-> "a", formula |-> Lit(List(<<Num(1), Num(2), Num(3)>>))],
                            [name |-> "b", formula |-> Lit(Num(99))]>>) =>
            rows = <<Row("a", Num(1)), Row("a", Num(2)), Row("a", Num(3))>>

\* C3 witness: the call with the formulas "[1,2,3]" and "99" has returned three rows
C3_Witness ==
  /\ IsEvaluateColumns
  /\ call.columns = <<[name |-> "a", formula |-> Lit(List(<<Num(1), Num(2), Num(3)>>))],
                      [name |-> "b", formula |-> Lit(Num(99))]>>
  /\ result.resultRows = <<Row("a", Num(1)), Row("a", Num(2)), Row("a", Num(3))>>

\* C4: a formula whose evaluation fails never makes evaluateColumns end with a
\* thrown exception.
C4_NoExceptionLeavesEvaluateColumns ==
  IsEvaluateColumns => ~IsThrow(result.thrown)

----------------------------------------------------------------------------
(* Claims about the sort comparator *)

IsCompare == call.op = "compareColumnValues"

\* C5: a row whose value for the sort column is undefined sorts after every row
\* whose value is defined, for both directions and every sort method.
C5_UndefinedSortsLast ==
  IsCompare =>
    LET aUndefined == Cell(call.a, call.columnName) = Undefined
        bUndefined == Cell(call.b, call.columnName) = Undefined
    IN /\ (aUndefined /\ ~bUndefined) => (result.t = "number" /\ result.v > 0)
       /\ (~aUndefined /\ bUndefined) => (result.t = "number" /\ result.v < 0)

----------------------------------------------------------------------------
(* Claims about the built-in API *)

\* C6: FILTER with a predicate that is not callable returns the list unchanged,
\* falsy elements included.
C6_FilterKeepsAllWithoutPredicate ==
  (call.op = "FILTER" /\ ~isFunction(call.condition)) => result = List(call.list)

\* C7: a free identifier that is not one of the five built-ins never resolves to a
\* value: its evaluation is a ReferenceError.
C7_OnlyBuiltinsResolve ==
  (call.op = "identifier" /\ call.name \notin APINames) => result = Throw("ReferenceError")

\* The positions (from 1) of the snippets of type T in the list S
PositionsOfType(S, T) == {k \in 1..Len(S) : S[k].v.type = T}

\* The i-th smallest member of a set of positions
NthPosition(P, nth) == CHOOSE k \in P : Cardinality({j \in P : j <= k}) = nth

CrossesNewline(span, doc) == \E p \in (span[1] + 1)..span[2] : doc[p] = "\n"

\* C9: ON_SAME_LINE(a, b) equals ON_SAME_LINE(b, a), and both are false when the
\* span of a or of b has its start and end on different lines.
C9_OnSameLineSymmetric ==
  call.op = "ON_SAME_LINE" =>
    /\ result = evaluateFormula(CallE("ON_SAME_LINE", <<Lit(call.b), Lit(call.a)>>),
                                call.snippets, call.doc)
    /\ (CrossesNewline(call.a.v.span, call.doc) \/ CrossesNewline(call.b.v.span, call.doc)) =>
         result = Bool(FALSE)

\* C9 witness: b spans two lines while a lies on the line where b starts
C9_Witness ==
  /\ call.op = "ON_SAME_LINE"
  /\ ~CrossesNewline(call.a.v.span, call.doc)
  /\ CrossesNewline(call.b.v.span, call.doc)
  /\ lineAt(call.doc, call.a.v.span[1]) = lineAt(call.doc, call.b.v.span[1])
  /\ result = Bool(FALSE)

\* C10: FIRST(list) is the element at index 0 and SECOND(list) the element at
\* index 1, undefined when the list has no such element: FIRST([]) and SECOND([1])
\* are undefined, FIRST([5,6]) is 5, SECOND([5,6]) is 6.
C10_FirstAndSecond ==
  /\ call.op = "FIRST" =>
       /\ result = (IF Len(call.list) >= 1 THEN call.list[1] ELSE Undefined)
       /\ call.list = <<>> => result = Undefined
       /\ call.list = <<Num(5), Num(6)>> => result = Num(5)
  /\ call.op = "SECOND" =>
       /\ result = (IF Len(call.list) >= 2 THEN call.list[2] ELSE Undefined)
       /\ call.list = <<Num(1)>> => result = Undefined
       /\ call.list = <<Num(5), Num(6)>> => result = Num(6)

\* C10 witness: FIRST([5,6]) has returned 5
C10_Witness ==
  /\ call.op = "FIRST"
  /\ call.list = <<Num(5), Num(6)>>
  /\ result = Num(5)

\* C11: direction "desc" negates the primary comparison only: when the primary
\* comparison of two rows is 0 the result is a.span start minus b.span start in
\* both directions if both rows are highlights, and 0 if either is not; when it is
\* not 0 the result is the primary comparison, negated for "desc".
C11_DirectionFlipsPrimaryOnly ==
  IsCompare =>
    LET primary == PrimaryComparison(ColumnSortValue(call.a, call.columnName),
                                     ColumnSortValue(call.b, call.columnName),
                                     call.sortMethod)
    IN /\ (primary = Num(0) /\ call.a.span # NoSpan /\ call.b.span # NoSpan) =>
            result = Num(call.a.span[1] - call.b.span[1])
       /\ (primary = Num(0) /\ (call.a.span = NoSpan \/ call.b.span = NoSpan)) =>
            result = Num(0)
       /\ (primary.t = "number" /\ primary.v # 0) =>
            result = Num(IF call.direction = "desc" THEN 0 - primary.v ELSE primary.v)
       /\ primary = NaN => result = NaN

\* C11 witness: a descending comparison of two highlight rows with equal values,
\* decided by the ascending span start
C11_Witness ==
  /\ IsCompare
  /\ call.direction = "desc"
  /\ ColumnSortValue(call.a, call.columnName) = Str(<<"a">>)
  /\ ColumnSortValue(call.b, call.columnName) = Str(<<"a">>)
  /\ call.a.span = <<0, 1>> /\ call.b.span = <<2, 3>>
  /\ result = Num(-2)

----------------------------------------------------------------------------
(* Claims about the sheet table *)

IsRender == call.op = "SheetTable"

\* The render sorts: there are rows and the sort state is set
RenderSorts == IsRender /\ Len(call.rows) > 0 /\ sortBy # Undefined

\* C12: one sort method is chosen for the whole sort: date comparison when the
\* column's name is "date", even when the first row's value looks numeric;
\* otherwise numeric comparison when the value of the column in the first of the
\* unsorted rows looks numeric; otherwise alphabetical comparison. The displayed
\* rows are the rows sorted with that one method.
C12_SortMethodFromNameAndFirstRow ==
  RenderSorts =>
    LET firstValue == ColumnSortValue(call.rows[1], sortBy.columnName)
        expected == IF sortBy.columnName = "date" THEN "Date"
                    ELSE IF isNumericish(firstValue) THEN "Numeric"
                    ELSE "Alphabetical"
    IN /\ result.sortMethod = expected
       /\ result.sortedRows =
            ArraySort(call.rows, sortBy.columnName, expected, sortBy.direction)

\* C12 witness: a sort by the column "date" whose first row's value looks numeric
\* has used date comparison
C12_Witness ==
  /\ RenderSorts
  /\ Len(call.rows) >= 2
  /\ sortBy.columnName = "date"
  /\ isNumericish(ColumnSortValue(call.rows[1], "date"))
  /\ result.sortMethod = "Date"

\* C13: the sort state is unset or one (column name, direction) pair; a click on
\* the button whose (column, direction) is the current sort state unsets it, a
\* click on any other button sets the state to that button's pair, and nothing
\* else changes the sort state.
C13_SortStateToggles ==
  /\ [](sortBy = Undefined \/ sortBy \in [columnName : TableColumns, direction : Directions])
  /\ [][ /\ call'.op = "sortClick" =>
              LET button == [columnName |-> call'.columnName, direction |-> call'.direction]
              IN sortBy' = (IF sortBy = button THEN Undefined ELSE button)
         /\ call'.op # "sortClick" => sortBy' = sortBy ]_vars

\* C13 witness: a click on the button of the current sort state has unset it
C13_Witness ==
  /\ call.op = "sortClick"
  /\ sortBy = Undefined

\* How many times a row occurs in a row sequence
Occurrences(rows, row) == Cardinality({k \in 1..Len(rows) : rows[k] = row})

\* C14: the displayed rows are a permutation of the rows given, the rows given
\* keep their order and contents, and without a sort state or without rows the
\* displayed rows are the rows given in their order.
C14_SortLeavesRowsAlone ==
  IsRender =>
    /\ result.rows = call.rows
    /\ Len(result.sortedRows) = Len(call.rows)
    /\ \A row \in TableRowPool :
         Occurrences(result.sortedRows, row) = Occurrences(call.rows, row)
    /\ (sortBy = Undefined \/ call.rows = <<>>) => result.sortedRows = call.rows

\* C14 witness: a render has displayed the rows in another order than given
C14_Witness ==
  /\ RenderSorts
  /\ result.sortedRows # call.rows
  /\ result.rows = call.rows

----------------------------------------------------------------------------
(* Claims about the columns of a sheet *)

\* The other sheets keep their columns
OtherSheetsUnchanged(sheet) ==
  \A other \in Sheets \ {sheet} : sheetConfigs'[other] = sheetConfigs[other]

\* C15: an add-column action appends exactly one column to the end of the sheet's
\* column list, named "col" followed by the counter incremented before use (the
\* first generated name is col2), with an empty formula and hidden visibility, and
\* leaves every existing column unchanged; no two generated names are equal,
\* across all sheets. Editing the formula or the name of the column at index k
\* changes only that field of that column and keeps the list's length and order.
C15_AddAndEditColumns ==
  /\ [](/\ \A j, k \in 1..Len(generated) : j # k => generated[j] # generated[k]
        /\ generated # <<>> => generated[1] = "col2")
  /\ [][ /\ call'.op = "addColumn" =>
              LET before == sheetConfigs[call'.sheet]
                  after == sheetConfigs'[call'.sheet]
              IN /\ i' = i + 1
                 /\ Len(after) = Len(before) + 1
                 /\ \A k \in 1..Len(before) : after[k] = before[k]
                 /\ after[Len(after)] = [name |-> "col" \o ToString(i'),
                                          formula |-> EmptyFormula,
                                          visibility |-> "Hidden"]
                 /\ generated' = Append(generated, after[Len(after)].name)
                 /\ OtherSheetsUnchanged(call'.sheet)
         /\ call'.op \in {"changeFormulaAt", "changeNameAt"} =>
              LET before == sheetConfigs[call'.sheet]
                  after == sheetConfigs'[call'.sheet]
                  at == call'.columnIndex + 1
              IN /\ Len(after) = Len(before)
                 /\ \A k \in 1..Len(before) : k # at => after[k] = before[k]
                 /\ after[at].visibility = before[at].visibility
                 /\ IF call'.op = "changeFormulaAt"
                    THEN after[at].formula = call'.formula /\ after[at].name = before[at].name
                    ELSE after[at].name = call'.name /\ after[at].formula = before[at].formula
                 /\ OtherSheetsUnchanged(call'.sheet)
                 /\ i' = i /\ generated' = generated ]_vars

\* C15 witness: columns were added to both sheets and the name of a generated
\* column was edited afterwards
C15_Witness ==
  /\ call.op = "changeNameAt"
  /\ Len(generated) >= 2
  /\ \A sheet \in Sheets : sheetConfigs[sheet] # <<>>
  /\ sheetConfigs[call.sheet][call.columnIndex + 1].name = "col3"

====
